---------------------------- MODULE Spec2Model ----------------------------
(***************************************************************************)
(* A model of src/Naman/app.py: the /api/stats handler (stats), the        *)
(* process-wide rate state (_prev) guarded by lock, the GPU resolver       *)
(* (safe_gpu_info) and the process ranker (get_top_processes).             *)
(*                                                                         *)
(* Conventions.  A Python value that may be None is a sequence of length   *)
(* 0 (None) or 1 (the value).  A float quotient a / b is kept exactly, as  *)
(* the pair <<a, b>>; a value rounded to one decimal is kept in tenths.    *)
(* Timestamps are the values time.time() returns, drawn from Time.         *)
(***************************************************************************)
EXTENDS Integers, Sequences, FiniteSets

VARIABLES
    mode,       \* how the module was loaded: "main" (python app.py) or "imported"
    started,    \* the server accepts requests
    lock,       \* threading.Lock: None, or the thread holding it
    _prev,      \* the module-level dict _prev: net, disk, ts
    pc,         \* each request thread's position in stats()
    local,      \* each request thread's local variables in stats()
    gpuEnv,     \* safe_gpu_info called on its own: what GPUtil and nvidia-smi do
    gpuPc,      \*   "call" before the call, "returned" after it
    gpuOut,     \*   what the call did
    rankProcs,  \* get_top_processes called on its own: the process table
    rankN,      \*   its argument n
    rankPc,     \*   "call" before the call, "returned" after it
    rankOut     \*   the list it returned

mainVars == <<mode, started, lock, _prev, pc, local>>
gpuVars == <<gpuEnv, gpuPc, gpuOut>>
rankVars == <<rankProcs, rankN, rankPc, rankOut>>
vars == <<mode, started, lock, _prev, pc, local,
          gpuEnv, gpuPc, gpuOut, rankProcs, rankN, rankPc, rankOut>>

---------------------------------------------------------------------------
(* Bounds *)

NumThreads == 2
MaxTime == 2
MaxProcs == 4
MaxN == 4
MaxFields == 5

Threads == 1 .. NumThreads
Time == 0 .. MaxTime

---------------------------------------------------------------------------
(* Python values *)

None == <<>>
Some(x) == <<x>>
Val(o) == o[1]

\* Python truthiness of an optional number: None and 0 are falsy.
TruthyNum(o) == o # None /\ Val(o) # 0

\* Python truthiness of an optional namedtuple (psutil's snetio, sdiskio): a
\* non-empty tuple is truthy whatever its fields hold.
TruthyTuple(o) == o # None

\* a / b as a float, kept exactly.
Quot(a, b) == <<a, b>>
QuotIs(q, k) == q[1] = k * q[2]

Min(a, b) == IF a <= b THEN a ELSE b

---------------------------------------------------------------------------
(* What the host returns to stats() *)

\* psutil.net_io_counters()
NetReads == { [bytes_sent |-> 1000, bytes_recv |-> 2000],
              [bytes_sent |-> 3000, bytes_recv |-> 2500] }

\* psutil.disk_io_counters()
DiskReads == { [read_bytes |-> 4096, write_bytes |-> 512],
               [read_bytes |-> 8192, write_bytes |-> 1024] }

\* psutil.net_io_counters(pernic=True): the call raises, or yields the interfaces
\* in order; badAt > 0 is the position of an entry whose fields cannot be read.
PernicEnvs == { [raises |-> TRUE, nics |-> <<>>, badAt |-> 0],
                [raises |-> FALSE, nics |-> <<"lo", "eth0">>, badAt |-> 0],
                [raises |-> FALSE, nics |-> <<"lo", "eth0">>, badAt |-> 2] }

\* psutil.sensors_battery(): raises, returns None, or a battery (percent in
\* hundredths of a percent).
BatteryEnvs == { [raises |-> TRUE, batt |-> None],
                 [raises |-> FALSE, batt |-> None],
                 [raises |-> FALSE, batt |-> Some([percent |-> 8746, power_plugged |-> TRUE])] }


---------------------------------------------------------------------------
(* get_top_processes *)

\* round(x, 1) of a value given in hundredths, as tenths (for values that are
\* not exactly half-way between two tenths).
Round1(h) == (h + 5) \div 10

\* round(a / b, 1) in tenths, for a, b >= 0 (same proviso).
RoundDiv1(a, b) == (20 * a + b) \div (2 * b)

\* What psutil.process_iter yields for one process: ok = FALSE when reading it
\* raises; cpu_percent in hundredths of a percent, or None; memory_info as the
\* rss in bytes, or None.
CpuReads == { None, Some(0), Some(496), Some(504), Some(1210) }
ProcChoices == { c \in [ok : BOOLEAN, cpu : CpuReads] : c.ok \/ c.cpu = None }
ProcRead(i, c) ==
    [ pid |-> 100 + i,
      name |-> IF i % 2 = 0 THEN None ELSE Some("proc"),
      cpu_percent |-> c.cpu,
      memory_info |-> IF i % 3 = 0 THEN None ELSE Some(i * 3145728),
      ok |-> c.ok ]
ProcTables(maxLen) ==
    UNION { { [i \in 1 .. k |-> ProcRead(i, f[i])] : f \in [1 .. k -> ProcChoices] }
            : k \in 0 .. maxLen }

\* The dict appended for one process (lines 65-72); cpu_percent and memory_mb
\* in tenths.
ProcEntry(info) ==
    [ pid |-> info.pid,
      name |-> IF info.name # None THEN Val(info.name) ELSE "",
      cpu_percent |-> Round1(IF TruthyNum(info.cpu_percent)
                               THEN Val(info.cpu_percent) ELSE 0),
      memory_mb |-> IF TruthyTuple(info.memory_info)
                       THEN RoundDiv1(Val(info.memory_info), 1024 * 1024)
                       ELSE 0 ]

\* The loop of lines 63-74: a process whose read raises is skipped.
RECURSIVE CollectProcs(_)
CollectProcs(table) ==
    IF table = <<>> THEN <<>>
    ELSE LET rest == CollectProcs(SubSeq(table, 1, Len(table) - 1))
             p == table[Len(table)]
         IN  IF p.ok THEN Append(rest, ProcEntry(p)) ELSE rest

\* The position list.sort(reverse=True) gives e among the already sorted s:
\* after every entry whose key is >= its own (Python's sort is stable, also
\* with reverse=True).
InsertAt(s, k, e) == SubSeq(s, 1, k) \o <<e>> \o SubSeq(s, k + 1, Len(s))
\* (variant: sorted ascending and then reversed, ties end up in reverse order)
InsertTiesReversed(s, e) ==
    InsertAt(s, Cardinality({ i \in 1 .. Len(s) : s[i].cpu_percent > e.cpu_percent }), e)
InsertDesc(s, e) ==
    InsertAt(s, Cardinality({ i \in 1 .. Len(s) : s[i].cpu_percent >= e.cpu_percent }), e)

RECURSIVE SortByCpuDesc(_)
SortByCpuDesc(s) ==
    IF s = <<>> THEN <<>>
    ELSE InsertDesc(SortByCpuDesc(SubSeq(s, 1, Len(s) - 1)), s[Len(s)])

\* procs[:n] for n >= 0
Slice(s, n) == SubSeq(s, 1, Min(n, Len(s)))

get_top_processes(table, n) == Slice(SortByCpuDesc(CollectProcs(table)), n)

---------------------------------------------------------------------------
(* safe_gpu_info *)

\* A device of GPUtil.getGPUs(): load as a fraction in thousandths, None when
\* GPUtil could not read it (None * 100 raises); memory in tenths of a MB;
\* temperature None when the device object has no such attribute.
GpuA == [name |-> "GeForce", load |-> Some(505), memoryUsed |-> 10240,
         memoryTotal |-> 81920, temperature |-> Some(61)]
GpuB == [name |-> "Quadro", load |-> Some(0), memoryUsed |-> 0,
         memoryTotal |-> 40960, temperature |-> None]
GpuBad == [name |-> "Tesla", load |-> None, memoryUsed |-> 0,
           memoryTotal |-> 40960, temperature |-> None]

GPUtilEnvs == { [raises |-> TRUE, gpus |-> <<>>],
                [raises |-> FALSE, gpus |-> <<>>],
                [raises |-> FALSE, gpus |-> <<GpuA>>],
                [raises |-> FALSE, gpus |-> <<GpuB, GpuA>>],
                [raises |-> FALSE, gpus |-> <<GpuA, GpuBad>>],
                [raises |-> FALSE, gpus |-> <<GpuBad>>],
                [raises |-> FALSE, gpus |-> <<GpuBad, GpuA>>] }

\* The nvidia-smi run: the command is missing or times out (subprocess.run
\* raises), or it ran with a return code and a stdout, given as its
\* comma-separated parts, stripped (<<>>: a stdout that is empty or blank).
Tokens == { "GeForce", "42", "N/A" }
IsFloat(tok) == tok = "42"
ParseFloat(tok) == 42
SmiOutputs(maxLen) == UNION { [1 .. k -> Tokens] : k \in 0 .. maxLen }
SmiEnvs(maxLen) ==
    { [kind |-> k, returncode |-> 0, parts |-> <<>>] : k \in {"missing", "timeout"} }
    \cup { [kind |-> "ran", returncode |-> rc, parts |-> o]
           : rc \in {0, 1}, o \in SmiOutputs(maxLen) }

\* A try block ends by returning a value, by raising, or by falling out of its
\* end.
Returned(v) == [outcome |-> "return", value |-> Some(v)]
Raised == [outcome |-> "raise", value |-> None]
FellThrough == [outcome |-> "fall", value |-> None]

\* lines 27-36
TryGPUtil(g) ==
    IF g.raises THEN Raised
    ELSE IF g.gpus = <<>> THEN FellThrough
    ELSE LET gpu == g.gpus[1]
         IN  IF gpu.load = None THEN Raised
             ELSE Returned([ source |-> "GPUtil",
                             name |-> gpu.name,
                             load_percent |-> Val(gpu.load),
                             memory_used_mb |-> gpu.memoryUsed,
                             memory_total_mb |-> gpu.memoryTotal,
                             temperature_c |-> gpu.temperature ])

\* lines 42-54
TryNvidiaSmi(p) ==
    IF p.kind # "ran" THEN Raised
    ELSE IF p.returncode = 0 /\ p.parts # <<>>
    THEN IF Len(p.parts) >= 5
         THEN IF \A i \in 2 .. 5 : IsFloat(p.parts[i])
              THEN Returned([ source |-> "nvidia-smi",
                              name |-> p.parts[1],
                              load_percent |-> 10 * ParseFloat(p.parts[2]),
                              memory_used_mb |-> 10 * ParseFloat(p.parts[3]),
                              memory_total_mb |-> 10 * ParseFloat(p.parts[4]),
                              temperature_c |-> Some(ParseFloat(p.parts[5])) ])
              ELSE Raised
         ELSE FellThrough
    ELSE FellThrough

\* except Exception: pass (lines 37-38 and 55-56)
\* (variant: no except clause)
Uncaught(r) == r
ExceptPass(r) == IF r.outcome = "raise" THEN FellThrough ELSE r

\* The whole function: what it returns, whether an exception left it, and how
\* many times it ran nvidia-smi.
safe_gpu_info(g, p) ==
    LET first == ExceptPass(TryGPUtil(g))
    IN  IF first.outcome = "return"
        THEN [ raised |-> FALSE, value |-> first.value, probes |-> 0 ]
        ELSE IF first.outcome = "raise"
        THEN [ raised |-> TRUE, value |-> None, probes |-> 0 ]
        ELSE LET second == ExceptPass(TryNvidiaSmi(p))
             IN  IF second.outcome = "raise"
                 THEN [ raised |-> TRUE, value |-> None, probes |-> 1 ]
                 ELSE [ raised |-> FALSE, value |-> second.value, probes |-> 1 ]

---------------------------------------------------------------------------
(* stats(): the sub-reads that may fail without failing the request *)

\* lines 150-157: the names copied into net_if before the loop ends or raises.
PernicLoop(e) ==
    [ raised |-> e.raises \/ e.badAt \in 1 .. Len(e.nics),
      copied |-> { e.nics[i] : i \in { j \in 1 .. Len(e.nics) : e.badAt = 0 \/ j < e.badAt } } ]

\* lines 148-159: net_if as the set of its keys; except Exception: net_if = {}
\* (variant: except Exception: pass, which keeps what was copied)
KeepPartial(e) == PernicLoop(e).copied
NetIfSummary(e) == IF PernicLoop(e).raised THEN {} ELSE PernicLoop(e).copied

\* lines 168-179; percent in tenths
BatteryOf(e) ==
    IF e.raises THEN None
    ELSE IF TruthyTuple(e.batt)
    THEN Some([ percent |-> Round1(Val(e.batt).percent),
                plugged |-> Val(e.batt).power_plugged ])
    ELSE None

\* What GPUtil, nvidia-smi and the process table are while stats() runs.
StatsGpuEnvs == { [g |-> [raises |-> FALSE, gpus |-> <<GpuA>>],
                   p |-> [kind |-> "missing", returncode |-> 0, parts |-> <<>>]],
                  [g |-> [raises |-> TRUE, gpus |-> <<>>],
                   p |-> [kind |-> "timeout", returncode |-> 0, parts |-> <<>>]] }
StatsProcTables ==
    { <<ProcRead(1, [ok |-> TRUE, cpu |-> Some(496)]),
        ProcRead(2, [ok |-> FALSE, cpu |-> None]),
        ProcRead(3, [ok |-> TRUE, cpu |-> Some(1210)])>> }

---------------------------------------------------------------------------
(* stats(): the Rate Tracker, lines 124-145 *)

\* line 127
DeltaT(now, prev_ts) == IF TruthyNum(prev_ts) THEN Some(now - Val(prev_ts)) ELSE None

\* the condition of lines 134 and 138
\* (variant: without the test delta_t > 0)
GuardNoSign(p, prev_ts, delta_t) ==
    TruthyTuple(p) /\ TruthyNum(prev_ts) /\ TruthyNum(delta_t)
RateGuard(p, prev_ts, delta_t) ==
    TruthyTuple(p) /\ TruthyNum(prev_ts) /\ TruthyNum(delta_t) /\ Val(delta_t) > 0

\* lines 129-140
Rate(cur, p, prev_ts, delta_t, field) ==
    IF RateGuard(p, prev_ts, delta_t)
    THEN Some(Quot(cur[field] - Val(p)[field], Val(delta_t)))
    ELSE None

\* the dict _prev before the baseline (lines 17-21)
NoPrev == [net |-> None, disk |-> None, ts |-> None]

---------------------------------------------------------------------------
(* stats(): the handler, one request thread each *)

\* A thread's local variables; None until assigned.
NoFrame ==
    [ now |-> None, net_counters |-> None, disk_io |-> None,
      prev |-> None, prev_disk |-> None, prev_ts |-> None, delta_t |-> None,
      upload_bps |-> None, download_bps |-> None,
      read_bps |-> None, write_bps |-> None,
      pernic |-> None, batt |-> None, payload |-> None ]

InCall == { "now", "gauges", "counters", "rates", "update", "optional", "return" }

\* Process startup under python app.py (lines 241-246): the baseline is read,
\* then app.run starts serving.
\* (variant: app.run without the baseline)
StartNoBaseline ==
    /\ mode = "main" /\ ~started
    /\ started' = TRUE
    /\ UNCHANGED <<mode, lock, _prev, pc, local, gpuVars, rankVars>>
StartMain ==
    /\ mode = "main" /\ ~started
    /\ \E n \in NetReads, d \in DiskReads, v \in Time :
         _prev' = [net |-> Some(n), disk |-> Some(d), ts |-> Some(v)]
    /\ started' = TRUE
    /\ UNCHANGED <<mode, lock, pc, local, gpuVars, rankVars>>

\* The module imported by a WSGI host (flask run, gunicorn): lines 12-21 run,
\* the __main__ block (line 241) does not.
StartImported ==
    /\ mode = "imported" /\ ~started
    /\ started' = TRUE
    /\ UNCHANGED <<mode, lock, _prev, pc, local, gpuVars, rankVars>>

\* A request for /api/stats arrives (line 96): its thread reaches line 98.
NewRequest(t) ==
    /\ started
    /\ pc[t] \in {"idle", "done", "failed"}
    /\ pc' = [pc EXCEPT ![t] = "lock"]
    /\ UNCHANGED <<mode, started, lock, _prev, local, gpuVars, rankVars>>

\* with lock: (line 98)
\* (variant: the block entered without waiting for the lock)
AcquireNoLock(t) ==
    /\ pc[t] = "lock"
    /\ lock' = Some(t)
    /\ pc' = [pc EXCEPT ![t] = "now"]
    /\ UNCHANGED <<mode, started, _prev, local, gpuVars, rankVars>>
Acquire(t) ==
    /\ pc[t] = "lock"
    /\ lock = None
    /\ lock' = Some(t)
    /\ pc' = [pc EXCEPT ![t] = "now"]
    /\ UNCHANGED <<mode, started, _prev, local, gpuVars, rankVars>>

\* An exception leaves the with block: the lock's __exit__ releases it and the
\* request fails.
\* (variant: acquire() and release() without try/finally)
PropagateHoldingLock(t) ==
    /\ pc' = [pc EXCEPT ![t] = "failed"]
    /\ local' = [local EXCEPT ![t] = NoFrame]
    /\ UNCHANGED lock
Propagate(t) ==
    /\ pc' = [pc EXCEPT ![t] = "failed"]
    /\ local' = [local EXCEPT ![t] = NoFrame]
    /\ lock' = IF lock = Some(t) THEN None ELSE lock

\* now = time.time() (line 99)
ReadNow(t) ==
    /\ pc[t] = "now"
    /\ \E v \in Time : local' = [local EXCEPT ![t].now = Some(v)]
    /\ pc' = [pc EXCEPT ![t] = "gauges"]
    /\ UNCHANGED <<mode, started, lock, _prev, gpuVars, rankVars>>

\* CPU, memory and disk usage (lines 101-118): read, or one of them raises.
ReadGauges(t) ==
    /\ pc[t] = "gauges"
    /\ \/ /\ pc' = [pc EXCEPT ![t] = "counters"]
          /\ UNCHANGED <<lock, local>>
       \/ Propagate(t)
    /\ UNCHANGED <<mode, started, _prev, gpuVars, rankVars>>

\* psutil.net_io_counters(), psutil.disk_io_counters() (lines 121-122): read,
\* or one of them raises.
ReadCounters(t) ==
    /\ pc[t] = "counters"
    /\ \/ /\ \E n \in NetReads, d \in DiskReads :
               local' = [local EXCEPT ![t].net_counters = Some(n),
                                      ![t].disk_io = Some(d)]
          /\ pc' = [pc EXCEPT ![t] = "rates"]
          /\ UNCHANGED lock
       \/ Propagate(t)
    /\ UNCHANGED <<mode, started, _prev, gpuVars, rankVars>>

\* lines 124-140
ComputeRates(t) ==
    /\ pc[t] = "rates"
    /\ LET f == local[t]
           dt == DeltaT(Val(f.now), _prev.ts)
           net == Val(f.net_counters)
           dsk == Val(f.disk_io)
       IN  local' = [local EXCEPT
                 ![t].prev = _prev.net,
                 ![t].prev_disk = _prev.disk,
                 ![t].prev_ts = _prev.ts,
                 ![t].delta_t = dt,
                 ![t].upload_bps = Rate(net, _prev.net, _prev.ts, dt, "bytes_sent"),
                 ![t].download_bps = Rate(net, _prev.net, _prev.ts, dt, "bytes_recv"),
                 ![t].read_bps = Rate(dsk, _prev.disk, _prev.ts, dt, "read_bytes"),
                 ![t].write_bps = Rate(dsk, _prev.disk, _prev.ts, dt, "write_bytes")]
    /\ pc' = [pc EXCEPT ![t] = "update"]
    /\ UNCHANGED <<mode, started, lock, _prev, gpuVars, rankVars>>

\* lines 143-145
\* (variant: _prev updated only when a rate was computed)
UpdateIfRated(t) ==
    /\ pc[t] = "update"
    /\ _prev' = IF local[t].upload_bps # None
                THEN [net |-> local[t].net_counters, disk |-> local[t].disk_io,
                      ts |-> local[t].now]
                ELSE _prev
    /\ pc' = [pc EXCEPT ![t] = "optional"]
    /\ UNCHANGED <<mode, started, lock, local, gpuVars, rankVars>>
UpdatePrev(t) ==
    /\ pc[t] = "update"
    /\ _prev' = [net |-> local[t].net_counters, disk |-> local[t].disk_io,
                 ts |-> local[t].now]
    /\ pc' = [pc EXCEPT ![t] = "optional"]
    /\ UNCHANGED <<mode, started, lock, local, gpuVars, rankVars>>

\* get_top_processes(5) (line 165)
TopN == 5

\* lines 195-237, the fields derived from what is modelled
Payload(f, net_if, gpu, top_procs, battery) ==
    [ timestamp |-> Val(f.now),
      disk |-> [read_bps |-> f.read_bps, write_bps |-> f.write_bps],
      network |-> [interfaces |-> net_if, upload_bps |-> f.upload_bps,
                   download_bps |-> f.download_bps],
      gpu |-> gpu,
      processes_top |-> top_procs,
      battery |-> battery ]

\* lines 147-237: per-NIC counters, GPU, top processes, battery, system info,
\* and the payload.
ReadOptional(t) ==
    /\ pc[t] = "optional"
    /\ \E e \in PernicEnvs, b \in BatteryEnvs, ge \in StatsGpuEnvs, table \in StatsProcTables :
         local' = [local EXCEPT
             ![t].pernic = Some(e),
             ![t].batt = Some(b),
             ![t].payload = Some(Payload(local[t], NetIfSummary(e),
                                         safe_gpu_info(ge.g, ge.p).value,
                                         get_top_processes(table, TopN),
                                         BatteryOf(b)))]
    /\ pc' = [pc EXCEPT ![t] = "return"]
    /\ UNCHANGED <<mode, started, lock, _prev, gpuVars, rankVars>>

\* return jsonify(payload) (line 239); leaving the with block releases the lock.
Return(t) ==
    /\ pc[t] = "return"
    /\ lock' = IF lock = Some(t) THEN None ELSE lock
    /\ pc' = [pc EXCEPT ![t] = "done"]
    /\ local' = [local EXCEPT ![t] = NoFrame]
    /\ UNCHANGED <<mode, started, _prev, gpuVars, rankVars>>

---------------------------------------------------------------------------
(* safe_gpu_info and get_top_processes called on their own *)

GpuIdle ==
    /\ gpuEnv = [g |-> [raises |-> FALSE, gpus |-> <<>>],
                 p |-> [kind |-> "missing", returncode |-> 0, parts |-> <<>>]]
    /\ gpuPc = "off"
    /\ gpuOut = [raised |-> FALSE, value |-> None, probes |-> 0]

RankIdle ==
    /\ rankProcs = <<>>
    /\ rankN = 0
    /\ rankPc = "off"
    /\ rankOut = <<>>

GpuCall ==
    /\ gpuPc = "call"
    /\ gpuOut' = safe_gpu_info(gpuEnv.g, gpuEnv.p)
    /\ gpuPc' = "returned"
    /\ UNCHANGED <<mainVars, gpuEnv, rankVars>>

RankCall ==
    /\ rankPc = "call"
    /\ rankOut' = get_top_processes(rankProcs, rankN)
    /\ rankPc' = "returned"
    /\ UNCHANGED <<mainVars, gpuVars, rankProcs, rankN>>

---------------------------------------------------------------------------
(* Specifications *)

ServerInit ==
    /\ started = FALSE
    /\ lock = None
    /\ _prev = NoPrev
    /\ pc = [t \in Threads |-> "idle"]
    /\ local = [t \in Threads |-> NoFrame]

Init ==
    /\ mode \in {"main", "imported"}
    /\ ServerInit
    /\ GpuIdle
    /\ RankIdle

Next ==
    \/ StartMain
    \/ StartImported
    \/ \E t \in Threads :
         \/ NewRequest(t)
         \/ Acquire(t)
         \/ ReadNow(t)
         \/ ReadGauges(t)
         \/ ReadCounters(t)
         \/ ComputeRates(t)
         \/ UpdatePrev(t)
         \/ ReadOptional(t)
         \/ Return(t)

Spec == Init /\ [][Next]_vars

\* safe_gpu_info on every GPUtil and nvidia-smi behaviour within the bounds
InitGpu ==
    /\ mode = "main"
    /\ ServerInit
    /\ RankIdle
    /\ gpuEnv \in [g : GPUtilEnvs, p : SmiEnvs(MaxFields)]
    /\ gpuPc = "call"
    /\ gpuOut = [raised |-> FALSE, value |-> None, probes |-> 0]

NextGpu == GpuCall

SpecGpu == InitGpu /\ [][NextGpu]_vars

\* get_top_processes on every process table and n within the bounds
InitRank ==
    /\ mode = "main"
    /\ ServerInit
    /\ GpuIdle
    /\ rankProcs \in ProcTables(MaxProcs)
    /\ rankN \in 0 .. MaxN
    /\ rankPc = "call"
    /\ rankOut = <<>>

NextRank == RankCall

SpecRank == InitRank /\ [][NextRank]_vars

---------------------------------------------------------------------------
(* Properties *)

\* The sample a call read: what it stores in _prev at lines 143-145.
OwnSample(t) ==
    [net |-> local[t].net_counters, disk |-> local[t].disk_io, ts |-> local[t].now]

\* Positions of stats() after the rates are computed, and after _prev is updated.
AfterRates == {"update", "optional", "return"}
AfterUpdate == {"optional", "return"}

Initialized == _prev.net # None /\ _prev.disk # None /\ _prev.ts # None
Uninitialized == _prev.net = None /\ _prev.disk = None /\ _prev.ts = None

AllRatesAbsent(f) ==
    /\ f.upload_bps = None /\ f.download_bps = None
    /\ f.read_bps = None /\ f.write_bps = None

\* A rate, when one is returned, is (own counter - counter read from _prev) over
\* (own timestamp - timestamp read from _prev).
RateFrom(r, cur, p, now, prev_ts, field) ==
    r # None =>
        /\ p # None /\ prev_ts # None
        /\ r = Some(Quot(Val(cur)[field] - Val(p)[field], Val(now) - Val(prev_ts)))

\* C1: calls are totally ordered on the Rate Tracker: at most one call is inside
\* the locked region; until a call overwrites _prev, _prev is still the sample
\* that call read as its previous one (nothing was written in between); every
\* rate it holds is computed from its own counters and timestamp against that
\* sample; and once it has overwritten _prev, _prev is its own sample until it
\* releases the lock.
C1_SerializedUpdates ==
    /\ \A t, u \in Threads : (pc[t] \in InCall /\ pc[u] \in InCall) => t = u
    /\ \A t \in Threads :
         /\ pc[t] = "update" =>
              /\ local[t].prev = _prev.net
              /\ local[t].prev_disk = _prev.disk
              /\ local[t].prev_ts = _prev.ts
         /\ pc[t] \in AfterRates =>
              LET f == local[t]
              IN  /\ RateFrom(f.upload_bps, f.net_counters, f.prev, f.now, f.prev_ts, "bytes_sent")
                  /\ RateFrom(f.download_bps, f.net_counters, f.prev, f.now, f.prev_ts, "bytes_recv")
                  /\ RateFrom(f.read_bps, f.disk_io, f.prev_disk, f.now, f.prev_ts, "read_bytes")
                  /\ RateFrom(f.write_bps, f.disk_io, f.prev_disk, f.now, f.prev_ts, "write_bytes")
         /\ pc[t] \in AfterUpdate => _prev = OwnSample(t)

\* C1's case: a call holds rates it computed while another request waits for
\* the lock.
C1_Witness ==
    \E t, u \in Threads :
        /\ t # u
        /\ pc[u] = "lock"
        /\ pc[t] = "return"
        /\ local[t].upload_bps # None /\ local[t].read_bps # None

\* C2: with a stored previous sample and now - previous timestamp > 0, each of
\* the four rates is (current - previous) / delta_t, whatever the previous
\* timestamp is; reads {1000, 2000} at 0 then {3000, 2500} at 2 give 1000.0 and
\* 250.0.
C2_RatesExact ==
    \A t \in Threads :
        LET f == local[t]
        IN  (/\ pc[t] \in AfterRates
             /\ f.prev # None /\ f.prev_disk # None /\ f.prev_ts # None
             /\ Val(f.now) - Val(f.prev_ts) > 0)
            => LET dt == Val(f.now) - Val(f.prev_ts)
                   net == Val(f.net_counters)
                   dsk == Val(f.disk_io)
               IN  /\ f.upload_bps = Some(Quot(net.bytes_sent - Val(f.prev).bytes_sent, dt))
                   /\ f.download_bps = Some(Quot(net.bytes_recv - Val(f.prev).bytes_recv, dt))
                   /\ f.read_bps = Some(Quot(dsk.read_bytes - Val(f.prev_disk).read_bytes, dt))
                   /\ f.write_bps = Some(Quot(dsk.write_bytes - Val(f.prev_disk).write_bytes, dt))
                   /\ (/\ Val(f.prev) = [bytes_sent |-> 1000, bytes_recv |-> 2000]
                       /\ Val(f.prev_ts) = 0
                       /\ net = [bytes_sent |-> 3000, bytes_recv |-> 2500]
                       /\ Val(f.now) = 2)
                      => /\ QuotIs(Val(f.upload_bps), 1000)
                         /\ QuotIs(Val(f.download_bps), 250)

\* C3: a call whose now - stored timestamp is <= 0 returns all four rates absent
\* and still replaces the stored sample by its own counters and timestamp.
C3_NonPositiveDelta ==
    \A t \in Threads :
        LET f == local[t]
        IN  (/\ pc[t] \in AfterRates
             /\ f.prev_ts # None
             /\ Val(f.now) - Val(f.prev_ts) <= 0)
            => /\ AllRatesAbsent(f)
               /\ pc[t] \in AfterUpdate => _prev = OwnSample(t)
               /\ pc[t] = "return" =>
                    LET pay == Val(f.payload)
                    IN  /\ pay.network.upload_bps = None
                        /\ pay.network.download_bps = None
                        /\ pay.disk.read_bps = None
                        /\ pay.disk.write_bps = None

\* C3's case: a call that read a clock value below a non-zero stored timestamp
\* is about to return.
C3_Witness ==
    \E t \in Threads :
        /\ pc[t] = "return"
        /\ local[t].prev_ts # None
        /\ Val(local[t].prev_ts) # 0
        /\ Val(local[t].now) < Val(local[t].prev_ts)
        /\ _prev.ts = local[t].now

\* C4 (state part): a call that found no previous sample holds all four rates
\* absent and, once past the update, has left its own sample as the baseline.
C4_FirstCallState ==
    \A t \in Threads :
        LET f == local[t]
        IN  (/\ pc[t] \in AfterRates
             /\ f.prev = None /\ f.prev_disk = None /\ f.prev_ts = None)
            => /\ AllRatesAbsent(f)
               /\ pc[t] \in AfterUpdate => (Initialized /\ _prev = OwnSample(t))

\* C4: the first call from the Uninitialized state returns all rates absent and
\* records its own sample as the baseline, and once Initialized the Rate Tracker
\* stays Initialized.
C4_FirstCall ==
    /\ [](Uninitialized \/ Initialized)
    /\ []C4_FirstCallState
    /\ [][Initialized => Initialized']_vars

\* C4's case: a call that started Uninitialized has recorded the baseline and is
\* about to return.
C4_Witness ==
    \E t \in Threads :
        /\ pc[t] = "return"
        /\ local[t].prev_ts = None /\ local[t].prev = None
        /\ Val(local[t].payload).network.upload_bps = None
        /\ Initialized

\* What the code reads of GPUtil: the first device, and whether its fields can
\* be read.
PrimaryValid(g) == ~g.raises /\ g.gpus # <<>> /\ g.gpus[1].load # None
ProbeParses(p) ==
    /\ p.kind = "ran" /\ p.returncode = 0 /\ p.parts # <<>>
    /\ Len(p.parts) >= 5
    /\ \A i \in 2 .. 5 : IsFloat(p.parts[i])

\* C5: with a first GPUtil device whose fields are readable the result is built
\* from that device and nvidia-smi is never run; otherwise (GPUtil raises, has no
\* device, or a field access fails) nvidia-smi is run exactly once; if that run
\* fails too (missing, timeout, non-zero exit, empty output, fewer than 5 fields,
\* unparsable field) the result is None; no exception leaves safe_gpu_info.
C5_GpuFallback ==
    gpuPc = "returned" =>
        /\ ~gpuOut.raised
        /\ PrimaryValid(gpuEnv.g) =>
             /\ gpuOut.probes = 0
             /\ gpuOut.value # None
             /\ Val(gpuOut.value).source = "GPUtil"
             /\ Val(gpuOut.value).name = gpuEnv.g.gpus[1].name
        /\ ~PrimaryValid(gpuEnv.g) =>
             /\ gpuOut.probes = 1
             /\ ~ProbeParses(gpuEnv.p) => gpuOut.value = None
             /\ ProbeParses(gpuEnv.p) =>
                  (gpuOut.value # None /\ Val(gpuOut.value).source = "nvidia-smi")

\* C5's case: the first device could not be read, nvidia-smi was run once, gave
\* five parts of which one is not a number, and the result is None.
C5_Witness ==
    /\ gpuPc = "returned"
    /\ ~gpuEnv.g.raises /\ gpuEnv.g.gpus # <<>> /\ gpuEnv.g.gpus[1].load = None
    /\ gpuEnv.p.kind = "ran" /\ gpuEnv.p.returncode = 0 /\ Len(gpuEnv.p.parts) = 5
    /\ ~ProbeParses(gpuEnv.p)
    /\ gpuOut.probes = 1 /\ gpuOut.value = None

\* Per-NIC enumeration raised (the call itself, or reading one entry), and the
\* battery query raised or reported no battery.
PernicFailed(e) == e.raises \/ e.badAt > 0
BatteryAbsent(b) == b.raises \/ b.batt = None

\* C6 (state part): a call about to return after a failed per-NIC enumeration
\* has network.interfaces present and empty; after a failed or empty battery
\* query it has battery None; either way its Rate Tracker update is in place.
C6_DegradedState ==
    \A t \in Threads :
        pc[t] = "return" =>
            LET f == local[t]
                pay == Val(f.payload)
            IN  /\ f.payload # None
                /\ PernicFailed(Val(f.pernic)) => pay.network.interfaces = {}
                /\ BatteryAbsent(Val(f.batt)) => pay.battery = None
                /\ (PernicFailed(Val(f.pernic)) \/ BatteryAbsent(Val(f.batt)))
                     => _prev = OwnSample(t)

\* C6: a failure of the per-NIC or battery sub-read never fails the snapshot: a
\* call past the Rate Tracker update never ends as a failed request, and the
\* snapshot it returns has interfaces empty / battery None.
C6_OptionalReadsDegrade ==
    /\ []C6_DegradedState
    /\ [][\A t \in Threads : pc[t] \in AfterUpdate => pc'[t] # "failed"]_vars

\* C6's case: reading the second interface raised after the first was copied,
\* the battery query raised, and the call is about to return its snapshot.
C6_Witness ==
    \E t \in Threads :
        /\ pc[t] = "return"
        /\ Val(local[t].pernic).badAt = 2
        /\ Val(local[t].batt).raises
        /\ Val(local[t].payload).network.interfaces = {}
        /\ Val(local[t].payload).battery = None

\* The processes of the table that were read, by position.
ReadOk == { i \in 1 .. Len(rankProcs) : rankProcs[i].ok }
PosOf(pid) == CHOOSE i \in 1 .. Len(rankProcs) : rankProcs[i].pid = pid

\* C7: get_top_processes(n) returns min(n, number of processes read) entries,
\* each a process that was read, in non-increasing order of cpu_percent, entries
\* of equal cpu_percent in the order of the enumeration.
C7_TopProcesses ==
    rankPc = "returned" =>
        /\ Len(rankOut) = Min(rankN, Cardinality(ReadOk))
        /\ \A k \in 1 .. Len(rankOut) : \E i \in ReadOk : rankProcs[i].pid = rankOut[k].pid
        /\ \A j, k \in 1 .. Len(rankOut) :
             j < k =>
                /\ rankOut[j].cpu_percent >= rankOut[k].cpu_percent
                /\ rankOut[j].cpu_percent = rankOut[k].cpu_percent
                     => PosOf(rankOut[j].pid) < PosOf(rankOut[k].pid)

\* C7's case: a process could not be read, n cuts the list short, and two
\* returned entries tie on cpu_percent (5.0, from 5.04 and 4.96).
C7_Witness ==
    /\ rankPc = "returned"
    /\ \E i \in 1 .. Len(rankProcs) : ~rankProcs[i].ok
    /\ rankN < Cardinality(ReadOk)
    /\ \E j, k \in 1 .. Len(rankOut) :
         /\ j < k
         /\ rankOut[j].cpu_percent = 50 /\ rankOut[k].cpu_percent = 50
         /\ rankProcs[PosOf(rankOut[j].pid)].cpu_percent
              # rankProcs[PosOf(rankOut[k].pid)].cpu_percent

\* C8 as stated: no stats() call ever executes while _prev is uninitialized.
C8_BaselineBeforeAnyCall ==
    \A t \in Threads : pc[t] \in InCall => Initialized

\* C8 as amended: when the program is started as a script (the __main__ block
\* runs), the baseline is recorded before the first request is accepted, so no
\* stats() call executes while _prev is uninitialized.
C8_BaselineWhenRunAsMain ==
    mode = "main" =>
        /\ started => Initialized
        /\ \A t \in Threads : pc[t] # "idle" => Initialized
        /\ \A t \in Threads : pc[t] \in AfterRates =>
             (local[t].prev # None /\ local[t].prev_disk # None /\ local[t].prev_ts # None)

\* C8's case: started as a script, the only request so far has read the baseline
\* as its previous sample.
C8_Witness ==
    /\ mode = "main"
    /\ \E t \in Threads :
         /\ pc[t] = "update"
         /\ local[t].prev_ts = _prev.ts /\ local[t].prev_ts # None
         /\ \A u \in Threads \ {t} : pc[u] = "idle"

\* C9 as stated: the stored timestamp never decreases from one update to the
\* next, whatever the clock returns.
C9_TimestampMonotonic ==
    [][(_prev.ts # None /\ _prev'.ts # None) => Val(_prev'.ts) >= Val(_prev.ts)]_vars

\* C9 as amended: every update stores the updating call's own clock reading, and
\* the stored timestamp decreases only in an update by a call whose delta_t is
\* negative, that is, whose clock reading is below the stored timestamp it read.
C9_TimestampFollowsClock ==
    [][(_prev.ts # None /\ _prev'.ts # _prev.ts) =>
          \E t \in Threads :
             /\ pc[t] = "update" /\ pc'[t] = "optional"
             /\ _prev'.ts = local[t].now
             /\ Val(_prev'.ts) < Val(_prev.ts) =>
                  (local[t].delta_t # None /\ Val(local[t].delta_t) < 0)]_vars

\* C9's case: two calls have updated in turn, the second with a positive
\* delta_t, and the stored timestamp went up to its reading.
C9_Witness ==
    \E t, u \in Threads :
        /\ t # u
        /\ pc[u] = "done"
        /\ pc[t] = "optional"
        /\ local[t].delta_t # None /\ Val(local[t].delta_t) > 0
        /\ _prev.ts = local[t].now

\* C10: the lock is never held by a call that has ended (returned or failed) or
\* has not entered the with block.
C10_LockReleased ==
    /\ lock # None => pc[Val(lock)] \in InCall
    /\ \A t \in Threads : pc[t] \in {"idle", "lock", "done", "failed"} => lock # Some(t)

\* C10's case: a request failed on a raising gauge or counter read, the lock is
\* free again and a later caller is inside the with block.
C10_Witness ==
    \E t, u \in Threads :
        /\ t # u
        /\ pc[t] = "failed"
        /\ pc[u] = "now"
        /\ lock = Some(u)

===========================================================================
